---- MODULE Spec2Model ----
(***************************************************************************)
(* authorize/data.py: the CreditCard and ECheckAccount data holders and    *)
(* their validation.  Python strings are sequences of one-character        *)
(* strings; a caller-supplied argument is an int, a str or None.           *)
(***************************************************************************)
EXTENDS Integers, Sequences, FiniteSets, TLC

VARIABLES
    now,        \* the instant datetime.now() returned last (it never runs back)
    cardArgs,   \* the arguments of the CreditCard(...) call
    card,       \* <<>> or <<the CreditCard instance the call produced>>
    cardOut,    \* how the last CreditCard.__init__ / validate call ended
    shown,      \* the last value read from CreditCard.safe_number
    echeckArgs, \* the arguments of the ECheckAccount(...) call
    echeck,     \* <<>> or <<the ECheckAccount instance>>
    echeckOut   \* how the last ECheckAccount.__init__ / validate call ended

vars == <<now, cardArgs, card, cardOut, shown, echeckArgs, echeck, echeckOut>>
cardVars == <<now, cardArgs, card, cardOut, shown>>
echeckVars == <<echeckArgs, echeck, echeckOut>>

----------------------------------------------------------------------------
(* Bounds of the model *)

\* free trailing digits of the generated card numbers
TailLen == 2
\* longest generated card number
MaxLen == 17
\* last calendar year the clock and the expiration years reach
LastYear == 2025

----------------------------------------------------------------------------
(* Characters, str() and int() *)

DigitChar == <<"0", "1", "2", "3", "4", "5", "6", "7", "8", "9">>
Digits == {DigitChar[i] : i \in 1..10}

\* \d on one character
IsDigit(c) == c \in Digits

\* int() of one decimal character
DigitVal(c) == CHOOSE d \in 0..9 : DigitChar[d + 1] = c

\* the text of a digit tuple: D(<<4, 1>>) is the string '41'
D(ds) == [i \in 1..Len(ds) |-> DigitChar[ds[i] + 1]]

AllDigits(s) == \A i \in 1..Len(s) : IsDigit(s[i])

\* caller-supplied values
None == [kind |-> "none", n |-> 0, s |-> <<>>]
IntArg(n) == [kind |-> "int", n |-> n, s |-> <<>>]
StrArg(s) == [kind |-> "str", n |-> 0, s |-> s]

RECURSIVE ToDecimal(_)
ToDecimal(n) ==
    IF n < 0 THEN <<"-">> \o ToDecimal(0 - n)
    ELSE IF n < 10 THEN <<DigitChar[n + 1]>>
    ELSE Append(ToDecimal(n \div 10), DigitChar[(n % 10) + 1])

\* str(x)
Str(x) ==
    CASE x.kind = "int" -> ToDecimal(x.n)
      [] x.kind = "none" -> <<"N", "o", "n", "e">>
      [] OTHER -> x.s

RECURSIVE DecimalValue(_)
DecimalValue(s) ==
    IF s = <<>> THEN 0
    ELSE 10 * DecimalValue(SubSeq(s, 1, Len(s) - 1)) + DigitVal(s[Len(s)])

\* int(s): an optional sign and at least one decimal digit, else ValueError
ParseInt(s) ==
    LET signed == s # <<>> /\ s[1] \in {"-", "+"}
        body == IF signed THEN Tail(s) ELSE s
    IN  IF body = <<>> \/ ~AllDigits(body)
        THEN [ok |-> FALSE, val |-> 0]
        ELSE [ok |-> TRUE,
              val |-> IF signed /\ s[1] = "-" THEN 0 - DecimalValue(body)
                      ELSE DecimalValue(body)]

\* re.sub(r'\D', '', s)
StripNonDigits(s) == SelectSeq(s, IsDigit)

\* $ at the end of a pattern: the end of the string, or just before a
\* newline that ends the string
AtEnd(s, i) == i = Len(s) + 1 \/ (i = Len(s) /\ s[i] = "\n")

----------------------------------------------------------------------------
(* How a call ends *)

\* what a call does: it returns, or it raises one kind of exception
Returned == [kind |-> "ok", msg |-> ""]
AuthorizeInvalidError(m) == [kind |-> "AuthorizeInvalidError", msg |-> m]
ValueError == [kind |-> "ValueError", msg |-> ""]
AttributeError == [kind |-> "AttributeError", msg |-> ""]

\* the record of the last call: which method, and what it did
Ended(call, result) == [call |-> call, kind |-> result.kind, msg |-> result.msg]
NotCalled == [call |-> "none", kind |-> "none", msg |-> ""]

----------------------------------------------------------------------------
(* CARD_TYPES: re.match of each issuer pattern against the card number *)

\* characters from..to of s exist and are all \d
DigitsAt(s, from, to) == Len(s) >= to /\ \A i \in from..to : IsDigit(s[i])

\* s begins with the literal text p
StartsWith(s, p) == Len(s) >= Len(p) /\ SubSeq(s, 1, Len(p)) = p

\* 4\d{12}(\d{3})?$
VisaRe(s) ==
    /\ StartsWith(s, <<"4">>)
    /\ DigitsAt(s, 2, 13)
    /\ \/ (DigitsAt(s, 14, 16) /\ AtEnd(s, 17))
       \/ AtEnd(s, 14)

\* 37\d{13}$
AmexRe(s) == StartsWith(s, <<"3", "7">>) /\ DigitsAt(s, 3, 15) /\ AtEnd(s, 16)

\* 5[1-4]\d{14}$: the issuer range cut short by one
McReUpTo4(s) ==
    /\ StartsWith(s, <<"5">>)
    /\ Len(s) >= 2 /\ s[2] \in {"1", "2", "3", "4"}
    /\ DigitsAt(s, 3, 16)
    /\ AtEnd(s, 17)

\* 5[1-5]\d{14}$
McRe(s) ==
    /\ StartsWith(s, <<"5">>)
    /\ Len(s) >= 2 /\ s[2] \in {"1", "2", "3", "4", "5"}
    /\ DigitsAt(s, 3, 16)
    /\ AtEnd(s, 17)

\* 6011\d{12}   (no $: whatever follows the 16th character is not looked at)
DiscoverRe(s) == StartsWith(s, <<"6", "0", "1", "1">>) /\ DigitsAt(s, 5, 16)

\* (30[0-5]\d{11}|(36|38)\d{12})$
DinersRe(s) ==
    \/ /\ StartsWith(s, <<"3", "0">>)
       /\ Len(s) >= 3 /\ s[3] \in {"0", "1", "2", "3", "4", "5"}
       /\ DigitsAt(s, 4, 14)
       /\ AtEnd(s, 15)
    \/ /\ (StartsWith(s, <<"3", "6">>) \/ StartsWith(s, <<"3", "8">>))
       /\ DigitsAt(s, 3, 14)
       /\ AtEnd(s, 15)

CardTypeNames == {"visa", "amex", "mc", "discover", "diners"}

\* re.match(CARD_TYPES[t], s)
CARD_TYPES(t, s) ==
    CASE t = "visa" -> VisaRe(s)
      [] t = "amex" -> AmexRe(s)
      [] t = "mc" -> McRe(s)
      [] t = "discover" -> DiscoverRe(s)
      [] t = "diners" -> DinersRe(s)

----------------------------------------------------------------------------
(* CreditCard *)

MsgNumber == "Credit card number is not valid."
MsgExpired == "Credit card is expired."
MsgCvv == "Credit card CVV is invalid format."

\* the sum with the doubled digits added whole: d * 2 in place of
\* sum(divmod(d * 2, 10))
RECURSIVE LuhnSumDoubledWhole(_, _)
LuhnSumDoubledWhole(num, k) ==
    IF k = 0 THEN 0
    ELSE LuhnSumDoubledWhole(num, k - 1)
         + (IF (Len(num) - k) % 2 = 0 THEN num[k] ELSE num[k] * 2)

\* sum(num[::-2] + [sum(divmod(d * 2, 10)) for d in num[-2::-2]]) over the
\* first k digits of num, whose last digit is position Len(num)
RECURSIVE LuhnSum(_, _)
LuhnSum(num, k) ==
    IF k = 0 THEN 0
    ELSE LET d == num[k]
         IN  LuhnSum(num, k - 1)
             + (IF (Len(num) - k) % 2 = 0
                THEN d
                ELSE ((d * 2) \div 10) + ((d * 2) % 10))

\* calendar.isleap
isleap(year) == year % 4 = 0 /\ (year % 100 # 0 \/ year % 400 = 0)

\* calendar.monthrange(year, month)[1], for month in 1..12
mdays == <<31, 28, 31, 30, 31, 30, 31, 31, 30, 31, 30, 31>>
monthrange(year, month) ==
    mdays[month] + (IF month = 2 /\ isleap(year) THEN 1 ELSE 0)

\* a datetime: <<year, month, day, hour, minute, second, microsecond>>
RECURSIVE Later(_, _, _)
Later(a, b, i) ==
    IF i > Len(a) THEN FALSE
    ELSE IF a[i] # b[i] THEN a[i] > b[i]
    ELSE Later(a, b, i + 1)

\* a > b on datetimes
After(a, b) == Later(a, b, 1)

\* exp_time with February always 28 days long: mdays[month] in place of
\* calendar.monthrange
exp_time_no_leap_day(exp_month, exp_year) ==
    LET y == ParseInt(exp_year)
        m == ParseInt(exp_month)
    IN  IF ~y.ok \/ ~m.ok THEN [ok |-> FALSE, time |-> <<>>]
        ELSE IF m.val < 1 \/ m.val > 12 THEN [ok |-> FALSE, time |-> <<>>]
        ELSE IF y.val < 1 \/ y.val > 9999 THEN [ok |-> FALSE, time |-> <<>>]
        ELSE [ok |-> TRUE, time |-> <<y.val, m.val, mdays[m.val], 23, 59, 59, 0>>]

\* CreditCard.exp_time: int() raises ValueError on a non-number,
\* calendar.monthrange on a month outside 1..12 (IllegalMonthError is a
\* ValueError), datetime() on a year outside 1..9999
exp_time(exp_month, exp_year) ==
    LET y == ParseInt(exp_year)
        m == ParseInt(exp_month)
    IN  IF ~y.ok \/ ~m.ok THEN [ok |-> FALSE, time |-> <<>>]
        ELSE IF m.val < 1 \/ m.val > 12 THEN [ok |-> FALSE, time |-> <<>>]
        ELSE IF y.val < 1 \/ y.val > 9999 THEN [ok |-> FALSE, time |-> <<>>]
        ELSE [ok |-> TRUE,
              time |-> <<y.val, m.val, monthrange(y.val, m.val), 23, 59, 59, 0>>]

\* CreditCard.expiration
expiration(self) == exp_time(self.exp_month, self.exp_year)

\* re.match(r'^\d{3,4}$', cvv)
CvvRe(s) ==
    /\ DigitsAt(s, 1, 3)
    /\ \/ (DigitsAt(s, 4, 4) /\ AtEnd(s, 5))
       \/ AtEnd(s, 4)

\* CreditCard.card_type: the issuers the loop over CARD_TYPES.items() can
\* return, one per iteration order; empty when it returns None
card_type(self) == {t \in CardTypeNames : CARD_TYPES(t, self.card_number)}

\* validate with the issuer looked up before the CVV is checked
CreditCard_validate_issuer_first(self, t) ==
    IF ~AllDigits(self.card_number) THEN AuthorizeInvalidError(MsgNumber)
    ELSE LET num == [i \in 1..Len(self.card_number) |-> DigitVal(self.card_number[i])]
         IN  IF LuhnSum(num, Len(num)) % 10 # 0 THEN AuthorizeInvalidError(MsgNumber)
             ELSE IF ~expiration(self).ok THEN ValueError
             ELSE IF After(t, expiration(self).time) THEN AuthorizeInvalidError(MsgExpired)
             ELSE IF card_type(self) = {} THEN AuthorizeInvalidError(MsgNumber)
             ELSE IF ~CvvRe(self.cvv) THEN AuthorizeInvalidError(MsgCvv)
             ELSE Returned

\* CreditCard.validate at the instant t
CreditCard_validate(self, t) ==
    IF ~AllDigits(self.card_number) THEN AuthorizeInvalidError(MsgNumber)
    ELSE LET num == [i \in 1..Len(self.card_number) |-> DigitVal(self.card_number[i])]
         IN  IF LuhnSum(num, Len(num)) % 10 # 0 THEN AuthorizeInvalidError(MsgNumber)
             ELSE IF ~expiration(self).ok THEN ValueError
             ELSE IF After(t, expiration(self).time) THEN AuthorizeInvalidError(MsgExpired)
             ELSE IF ~CvvRe(self.cvv) THEN AuthorizeInvalidError(MsgCvv)
             ELSE IF card_type(self) = {} THEN AuthorizeInvalidError(MsgNumber)
             ELSE Returned

\* the mask one short: '*' * (len - 5) before the last four digits
safe_number_short_mask(self) ==
    LET n == Len(self.card_number)
        mask == [i \in 1..(IF n > 5 THEN n - 5 ELSE 0) |-> "*"]
    IN  mask \o SubSeq(self.card_number, (IF n > 4 THEN n - 3 ELSE 1), n)

\* CreditCard.safe_number
safe_number(self) ==
    LET n == Len(self.card_number)
        mask == [i \in 1..(IF n > 4 THEN n - 4 ELSE 0) |-> "*"]
    IN  mask \o SubSeq(self.card_number, (IF n > 4 THEN n - 3 ELSE 1), n)

\* the fields CreditCard.__init__ sets from the arguments
\* (first_name and last_name are stored and read by no validation)
NewCard(args) ==
    [card_number |-> StripNonDigits(Str(args.card_number)),
     exp_year |-> Str(args.exp_year),
     exp_month |-> Str(args.exp_month),
     cvv |-> Str(args.cvv)]

\* CreditCard(...) called when the clock reads t: the instance exists only
\* if validate() returns
CreditCardInit(t) ==
    /\ cardOut = NotCalled
    /\ now' = t
    /\ LET self == NewCard(cardArgs)
           out == CreditCard_validate(self, t)
       IN  /\ cardOut' = Ended("__init__", out)
           /\ card' = IF out = Returned THEN <<self>> ELSE <<>>
    /\ UNCHANGED <<cardArgs, shown, echeckVars>>

\* card.validate() called again on the instance when the clock reads t
CardValidate(t) ==
    /\ card # <<>>
    /\ now' = t
    /\ cardOut' = Ended("validate", CreditCard_validate(card[1], t))
    /\ UNCHANGED <<cardArgs, card, shown, echeckVars>>

\* card.safe_number read
ReadSafeNumber ==
    /\ card # <<>>
    /\ shown' = safe_number(card[1])
    /\ UNCHANGED <<now, cardArgs, card, cardOut, echeckVars>>

----------------------------------------------------------------------------
(* The clock: the instants datetime.now() is read at *)

Years == 2023..LastYear

\* times of day <<hour, minute, second, microsecond>> around 23:59:59
TimesOfDay == <<(<<0, 0, 0, 0>>), (<<23, 59, 59, 0>>), (<<23, 59, 59, 1>>)>>

At(y, m, d, k) == <<y, m, d>> \o TimesOfDay[k]

TimeIndex(t) == CHOOSE k \in 1..Len(TimesOfDay) : SubSeq(t, 4, 7) = TimesOfDay[k]

\* the instants the clock can read next: the same one, the next time of the
\* same day, the first hour of the month's last day or of the next month
Steps(t) ==
    LET y == t[1]
        m == t[2]
        d == t[3]
        k == TimeIndex(t)
    IN  {t}
        \cup (IF k < Len(TimesOfDay) THEN {At(y, m, d, k + 1)} ELSE {})
        \cup (IF d < monthrange(y, m) THEN {At(y, m, monthrange(y, m), 1)}
              ELSE IF m < 12 THEN {At(y, m + 1, 1, 1)}
              ELSE IF y < LastYear THEN {At(y + 1, 1, 1, 1)}
              ELSE {})


Instants ==
    UNION {{At(y, m, d, k) : d \in {1, monthrange(y, m)}, k \in 1..Len(TimesOfDay)} :
           y \in Years, m \in 1..12}

----------------------------------------------------------------------------
(* ECheckAccount *)

MsgRouting == "Routing number should be a 9 digit number."
MsgAccount == "Account number should be a number between 1 and 20 digits."
MsgAccountType == "Invalid account type."

Text_checking == <<"c", "h", "e", "c", "k", "i", "n", "g">>
Text_savings == <<"s", "a", "v", "i", "n", "g", "s">>
Text_businesschecking == <<"b", "u", "s", "i", "n", "e", "s", "s">> \o Text_checking

ACCOUNT_TYPES == {Text_checking, Text_businesschecking, Text_savings}

UpperCase ==
    <<"A", "B", "C", "D", "E", "F", "G", "H", "I", "J", "K", "L", "M",
      "N", "O", "P", "Q", "R", "S", "T", "U", "V", "W", "X", "Y", "Z">>
LowerCase ==
    <<"a", "b", "c", "d", "e", "f", "g", "h", "i", "j", "k", "l", "m",
      "n", "o", "p", "q", "r", "s", "t", "u", "v", "w", "x", "y", "z">>

\* str.lower()
lower(s) ==
    [i \in 1..Len(s) |->
        IF \E k \in 1..Len(UpperCase) : UpperCase[k] = s[i]
        THEN LowerCase[CHOOSE k \in 1..Len(UpperCase) : UpperCase[k] = s[i]]
        ELSE s[i]]

\* re.match(r'^\d9$', s): one digit, then the character 9
RoutingRe(s) == DigitsAt(s, 1, 1) /\ Len(s) >= 2 /\ s[2] = "9" /\ AtEnd(s, 3)

\* re.match(r'^\d{1,20}$', s)
AccountRe(s) == \E n \in 1..20 : DigitsAt(s, 1, n) /\ AtEnd(s, n + 1)

\* the fields ECheckAccount.__init__ sets from the arguments
NewECheck(args) ==
    [routing_number |-> Str(args.routing_number),
     account_number |-> Str(args.account_number),
     account_type |-> args.account_type,
     bank_name |-> args.bank_name,
     account_name |-> args.account_name]

\* ECheckAccount.validate: .lower() exists on a str only
ECheckAccount_validate(self) ==
    IF ~RoutingRe(self.routing_number) THEN AuthorizeInvalidError(MsgRouting)
    ELSE IF ~AccountRe(self.account_number) THEN AuthorizeInvalidError(MsgAccount)
    ELSE IF self.account_type.kind # "str" THEN AttributeError
    ELSE IF lower(self.account_type.s) \notin ACCOUNT_TYPES
         THEN AuthorizeInvalidError(MsgAccountType)
    ELSE Returned

\* ECheckAccount(...): stores the fields and returns
ECheckAccountInit ==
    /\ echeckOut = NotCalled
    /\ echeck' = <<NewECheck(echeckArgs)>>
    /\ echeckOut' = Ended("__init__", Returned)
    /\ UNCHANGED <<cardVars, echeckArgs>>

\* echeck.validate()
ECheckValidate ==
    /\ echeck # <<>>
    /\ echeckOut' = Ended("validate", ECheckAccount_validate(echeck[1]))
    /\ UNCHANGED <<cardVars, echeckArgs, echeck>>

----------------------------------------------------------------------------
(* The calls checked *)

\* the numbers of tests/test_data.py
Card4111 == D(<<4, 1, 1, 1, 1, 1, 1, 1, 1, 1, 1, 1, 1, 1, 1, 1>>)
Card4111Dashed ==
    D(<<4, 1, 1, 1>>) \o <<"-">> \o D(<<1, 1, 1, 1>>) \o <<"-">>
    \o D(<<1, 1, 1, 1>>) \o <<"-">> \o D(<<1, 1, 1, 1>>)
Card4112 == D(<<4, 1, 1, 1, 1, 1, 1, 1, 1, 1, 1, 1, 1, 1, 1, 2>>)
TEST_CARD_NUMBERS ==
    {<<"amex", D(<<3, 7, 0, 0, 0, 0, 0, 0, 0, 0, 0, 0, 0, 0, 2>>)>>,
     <<"mc", D(<<5, 5, 5, 5, 5, 5, 5, 5, 5, 5, 5, 5, 4, 4, 4, 4>>)>>,
     <<"mc", D(<<5, 1, 0, 5, 1, 0, 5, 1, 0, 5, 1, 0, 5, 1, 0, 0>>)>>,
     <<"discover", D(<<6, 0, 1, 1, 0, 0, 0, 0, 0, 0, 0, 0, 0, 0, 1, 2>>)>>,
     <<"visa", D(<<4, 0, 0, 7, 0, 0, 0, 0, 0, 0, 0, 2, 7>>)>>,
     <<"visa", D(<<4, 0, 1, 2, 8, 8, 8, 8, 1, 8, 8, 8, 8>>)>>,
     <<"diners", D(<<3, 8, 0, 0, 0, 0, 0, 0, 0, 0, 0, 0, 0, 6>>)>>}

\* a Luhn-valid number no issuer pattern matches
CardNoIssuer == D(<<1, 2, 3, 4, 5, 6, 7, 8, 1, 2, 3, 4, 5, 6, 7, 0>>)

Cvv911 == StrArg(D(<<9, 1, 1>>))

\* the calls of the card's life: a few numbers, every kind of expiration
\* and CVV argument
CardCalls ==
    [card_number : {StrArg(Card4111Dashed), StrArg(Card4112), StrArg(CardNoIssuer)},
     exp_year : {IntArg(y) : y \in Years} \cup {None},
     exp_month : {IntArg(m) : m \in {1, 2, 13}} \cup {StrArg(<<"J", "a", "n">>)},
     cvv : {Cvv911, IntArg(1234), StrArg(<<"a", "b", "c">>), StrArg(D(<<1, 2>>)),
            StrArg(D(<<9, 1, 1>>) \o <<"\n">>)}]

\* the issuer prefixes, and prefixes next to them that no issuer has
Prefixes ==
    {<<4>>, <<3, 7>>, <<5, 1>>, <<5, 5>>, <<6, 0, 1, 1>>,
     <<3, 0, 0>>, <<3, 0, 5>>, <<3, 6>>, <<3, 8>>,
     <<3, 0, 6>>, <<3, 4>>, <<5, 0>>, <<5, 6>>}

Zeros(n) == [i \in 1..n |-> 0]

\* the numbers of every length up to MaxLen whose last TailLen digits are
\* free (ten of every hundred pass Luhn), the shorter ones, and for every
\* prefix those of 12 to MaxLen digits
GeneratedNumbers ==
    UNION {[1..n -> 0..9] : n \in 0..(TailLen - 1)}
    \cup {Zeros(n - TailLen) \o tail : n \in TailLen..MaxLen, tail \in [1..TailLen -> 0..9]}
    \cup {p \o Zeros(n - Len(p) - TailLen) \o tail :
            p \in Prefixes, n \in 12..MaxLen, tail \in [1..TailLen -> 0..9]}

\* the calls of the number checks: every generated number and the test
\* numbers, with an expiration ahead of the clock and a well-formed CVV
NumberCalls ==
    [card_number : {StrArg(D(n)) : n \in GeneratedNumbers}
                   \cup {StrArg(c[2]) : c \in TEST_CARD_NUMBERS}
                   \cup {StrArg(Card4111), StrArg(Card4111Dashed), StrArg(Card4112)},
     exp_year : {IntArg(LastYear)},
     exp_month : {IntArg(1)},
     cvv : {Cvv911}]

NoCardCall == [card_number |-> None, exp_year |-> None, exp_month |-> None, cvv |-> None]

\* tests/test_data.py ECheckTests.ROUTING_NUMBER
ROUTING_NUMBER == D(<<0, 2, 1, 0, 0, 0, 0, 2, 1>>)

Text_FirstBank == <<"F", "i", "r", "s", "t", " ", "B", "a", "n", "k">>
Text_JohnDoe == <<"J", "o", "h", "n", " ", "D", "o", "e">>

ECheckCalls ==
    [routing_number :
        {StrArg(ROUTING_NUMBER),
         StrArg(D(<<1, 2, 3, 4, 5, 6, 7, 8>>)),
         StrArg(D(<<1, 2, 3, 4, 5, 6, 7, 8, 9, 0>>)),
         StrArg(D(<<1, 2, 3, 4, 5, 6, 7, 8, 9>>)),
         StrArg(D(<<0, 2, 1, 0, 0, 0, 0, 2, 2>>)),
         StrArg(D(<<0, 2, 1, 0, 0, 0, 0, 2>>) \o <<"x">>),
         StrArg(D(<<1, 9>>)),
         IntArg(111000025),
         None},
     account_number :
        {StrArg(D(<<1, 2, 3, 4, 5, 6>>)),
         StrArg(D(<<1, 2, 3, 4, 5, 6, 7, 8, 9, 0>>)),
         StrArg(<<"n", "o", "t", "-", "a", "-", "n", "u", "m", "b", "e", "r">>),
         StrArg(D(Zeros(21))),
         None},
     account_type :
        {StrArg(Text_checking), StrArg(Text_savings), StrArg(Text_businesschecking),
         StrArg(<<"C", "h", "e", "c", "k", "i", "n", "g">>),
         StrArg(<<"f", "r", "e", "e", "m", "o", "n", "e", "y">>),
         None},
     bank_name : {StrArg(Text_FirstBank), StrArg(<<>>), None},
     account_name : {StrArg(Text_JohnDoe), StrArg(<<>>), None}]

NoECheckCall ==
    [routing_number |-> None, account_number |-> None, account_type |-> None,
     bank_name |-> None, account_name |-> None]

----------------------------------------------------------------------------
(* Specifications *)

NoCardYet == card = <<>> /\ cardOut = NotCalled /\ shown = <<>>
NoECheckYet == echeck = <<>> /\ echeckOut = NotCalled

\* a card's life on the running clock
Init ==
    /\ now \in Instants
    /\ cardArgs \in CardCalls
    /\ NoCardYet
    /\ echeckArgs = NoECheckCall
    /\ NoECheckYet

Construct == \E t \in Steps(now) : CreditCardInit(t)
Revalidate == \E t \in Steps(now) : CardValidate(t)

Next ==
    \/ Construct
    \/ Revalidate

Spec == Init /\ [][Next]_vars

\* many card numbers at one instant
InitNumbers ==
    /\ now = At(2023, 1, 1, 1)
    /\ cardArgs \in NumberCalls
    /\ NoCardYet
    /\ echeckArgs = NoECheckCall
    /\ NoECheckYet

NextNumbers ==
    \/ CreditCardInit(now)
    \/ CardValidate(now)
    \/ ReadSafeNumber

SpecNumbers == InitNumbers /\ [][NextNumbers]_vars

\* an eCheck account's life
InitECheck ==
    /\ now = At(2023, 1, 1, 1)
    /\ cardArgs = NoCardCall
    /\ NoCardYet
    /\ echeckArgs \in ECheckCalls
    /\ NoECheckYet

NextECheck ==
    \/ ECheckAccountInit
    \/ ECheckValidate

SpecECheck == InitECheck /\ [][NextECheck]_vars

----------------------------------------------------------------------------
(* The vocabulary of the properties, written from their statements *)

\* the card number of the call after normalisation, as digits
CallNumber == StripNonDigits(Str(cardArgs.card_number))
CallDigits == [i \in 1..Len(CallNumber) |-> DigitVal(CallNumber[i])]

\* the Luhn sum: the digit at an odd position from the right counts as it
\* is, the digit at an even position doubled, less 9 when that is 10 or more
RECURSIVE LuhnTotal(_, _)
LuhnTotal(ds, pos) ==
    IF pos > Len(ds) THEN 0
    ELSE LET d == ds[Len(ds) - pos + 1]
         IN  (IF pos % 2 = 1 THEN d
              ELSE IF d * 2 >= 10 THEN d * 2 - 9
              ELSE d * 2)
             + LuhnTotal(ds, pos + 1)

PassesLuhn(ds) == LuhnTotal(ds, 1) % 10 = 0

\* a CVV of 3 or 4 decimal digits
WellFormedCvv(s) == Len(s) \in {3, 4} /\ \A i \in 1..Len(s) : s[i] \in Digits

\* the expiration of the call is a month 1..12 of a year, given as ints
DatedCall ==
    /\ cardArgs.exp_year.kind = "int" /\ cardArgs.exp_year.n \in 1..9999
    /\ cardArgs.exp_month.kind = "int" /\ cardArgs.exp_month.n \in 1..12

\* the last calendar day of a month
LastDayOf(y, m) ==
    IF m \in {1, 3, 5, 7, 8, 10, 12} THEN 31
    ELSE IF m \in {4, 6, 9, 11} THEN 30
    ELSE IF (y % 400 = 0) \/ (y % 4 = 0 /\ y % 100 # 0) THEN 29
    ELSE 28

\* the expiration instant of a dated call: its last day at 23:59:59
ExpirationInstant ==
    LET y == cardArgs.exp_year.n
        m == cardArgs.exp_month.n
    IN  <<y, m, LastDayOf(y, m), 23, 59, 59, 0>>

\* instant a is strictly before instant b: by day, then second, then microsecond
DayOf(t) == (t[1] * 12 + t[2]) * 32 + t[3]
SecondOf(t) == (t[4] * 60 + t[5]) * 60 + t[6]
Before(a, b) ==
    \/ DayOf(a) < DayOf(b)
    \/ DayOf(a) = DayOf(b) /\ SecondOf(a) < SecondOf(b)
    \/ DayOf(a) = DayOf(b) /\ SecondOf(a) = SecondOf(b) /\ a[7] < b[7]

RaisedInvalid(out, m) == out.kind = "AuthorizeInvalidError" /\ out.msg = m

----------------------------------------------------------------------------
(* The number checks, under SpecNumbers *)

\* the constructor has run on a call whose expiration is not past, whose CVV
\* is 3 or 4 digits and whose number an issuer pattern matches
NumberDecides ==
    /\ cardOut.call = "__init__"
    /\ DatedCall /\ ~Before(ExpirationInstant, now)
    /\ WellFormedCvv(Str(cardArgs.cvv))
    /\ card_type(NewCard(cardArgs)) # {}

\* C2: with an unexpired expiration, a 3-4 digit CVV and a recognized issuer
\* pattern, construction succeeds if and only if the Luhn sum of the
\* stripped number is divisible by 10, and a number failing Luhn raises
\* AuthorizeInvalidError.
C2_LuhnDecidesConstruction ==
    NumberDecides =>
        /\ (cardOut.kind = "ok") <=> PassesLuhn(CallDigits)
        /\ (card # <<>>) <=> PassesLuhn(CallDigits)
        /\ ~PassesLuhn(CallDigits) => RaisedInvalid(cardOut, MsgNumber)

\* 4111-1111-1111-1111 was stripped to 16 digits and accepted
C2_Witness ==
    /\ cardOut = Ended("__init__", Returned)
    /\ cardArgs.card_number = StrArg(Card4111Dashed)
    /\ card # <<>> /\ card[1].card_number = Card4111

\* the issuer a number's prefix names: visa 4, amex 37, mastercard 51-55,
\* discover 6011, diners 300-305, 36, 38
IssuerOfPrefix(ds) ==
    IF Len(ds) >= 1 /\ ds[1] = 4 THEN "visa"
    ELSE IF Len(ds) >= 2 /\ ds[1] = 3 /\ ds[2] = 7 THEN "amex"
    ELSE IF Len(ds) >= 2 /\ ds[1] = 5 /\ ds[2] \in 1..5 THEN "mc"
    ELSE IF Len(ds) >= 4 /\ SubSeq(ds, 1, 4) = <<6, 0, 1, 1>> THEN "discover"
    ELSE IF Len(ds) >= 3 /\ ds[1] = 3 /\ ds[2] = 0 /\ ds[3] \in 0..5 THEN "diners"
    ELSE IF Len(ds) >= 2 /\ ds[1] = 3 /\ ds[2] \in {6, 8} THEN "diners"
    ELSE "none"

\* the constructor accepted the call and card_type is exactly the issuer
AcceptedAs(issuer) ==
    /\ cardOut = Ended("__init__", Returned)
    /\ card # <<>>
    /\ card_type(card[1]) = {issuer}

\* every test number of tests/test_data.py is accepted as its issuer
TestNumbersAccepted ==
    \A c \in TEST_CARD_NUMBERS : CallNumber = c[2] => AcceptedAs(c[1])

\* C3 as stated: every 16-digit Luhn-valid number with a recognized issuer
\* prefix (amex 37 and diners 300-305/36/38 among them) is accepted with the
\* issuer of its prefix as card_type, and so is every test number.
C3_Original ==
    cardOut.call = "__init__" =>
        /\ (Len(CallDigits) = 16 /\ PassesLuhn(CallDigits)
                /\ IssuerOfPrefix(CallDigits) # "none")
            => AcceptedAs(IssuerOfPrefix(CallDigits))
        /\ TestNumbersAccepted

\* C3 amended: given an unexpired expiration and a 3-4 digit CVV, every
\* 16-digit Luhn-valid number with a visa 4, mastercard 51-55 or discover
\* 6011 prefix is accepted with that issuer as card_type; a 16-digit number
\* with an amex 37 or diners 300-305/36/38 prefix is rejected as not valid
\* (those issuers' numbers have 15 and 14 digits); every test number is
\* accepted as its issuer.
C3_SixteenDigitIssuers ==
    (cardOut.call = "__init__" /\ DatedCall /\ ~Before(ExpirationInstant, now)
            /\ WellFormedCvv(Str(cardArgs.cvv))) =>
        /\ (Len(CallDigits) = 16 /\ PassesLuhn(CallDigits)
                /\ IssuerOfPrefix(CallDigits) \in {"visa", "mc", "discover"})
            => AcceptedAs(IssuerOfPrefix(CallDigits))
        /\ (Len(CallDigits) = 16 /\ IssuerOfPrefix(CallDigits) \in {"amex", "diners"})
            => (RaisedInvalid(cardOut, MsgNumber) /\ card = <<>>)
        /\ TestNumbersAccepted

\* 5555555555554444 was accepted as mastercard
C3_Witness ==
    /\ CallDigits = <<5, 5, 5, 5, 5, 5, 5, 5, 5, 5, 5, 5, 4, 4, 4, 4>>
    /\ AcceptedAs("mc")

Stars(n) == [i \in 1..n |-> "*"]

\* C8: safe_number has the length of the card number, its last
\* min(4, length) characters are the number's last digits and every
\* character before them is '*'; 4111111111111111 gives ************1111;
\* what a read of safe_number returns is that mask of the instance's number.
C8_SafeNumberMasks ==
    LET n == CallNumber
        m == safe_number(NewCard(cardArgs))
    IN  /\ Len(m) = Len(n)
        /\ \A i \in 1..Len(n) :
              IF i > Len(n) - 4 THEN m[i] = n[i] ELSE m[i] = "*"
        /\ n = Card4111 => m = Stars(12) \o D(<<1, 1, 1, 1>>)
        /\ shown # <<>> => (card # <<>> /\ card[1].card_number = n /\ shown = m)

\* safe_number was read on the accepted 4111111111111111
C8_Witness == card # <<>> /\ shown = Stars(12) \o D(<<1, 1, 1, 1>>)

\* the digit counts of an issuer's numbers
IssuerLengths(t) ==
    CASE t = "visa" -> {13, 16}
      [] t = "amex" -> {15}
      [] t = "mc" -> {16}
      [] t = "discover" -> {16}
      [] t = "diners" -> {14}

\* C10 as stated: every constructed CreditCard has exactly the digit count
\* of its detected issuer, none has more than 16 digits, and a number
\* matches at most one issuer pattern.
C10_Original ==
    /\ Cardinality(card_type(NewCard(cardArgs))) <= 1
    /\ card # <<>> =>
          /\ Len(card[1].card_number) <= 16
          /\ \A t \in card_type(card[1]) : Len(card[1].card_number) \in IssuerLengths(t)

----------------------------------------------------------------------------
(* The card's life on the clock, under Spec *)

\* a call has run (now is the instant it read) on a card whose number
\* passes Luhn and matches an issuer, whose CVV is 3 or 4 digits and whose
\* expiration is a month of a year
SoundButForDate ==
    /\ cardOut.call # "none"
    /\ DatedCall
    /\ PassesLuhn(CallDigits)
    /\ card_type(NewCard(cardArgs)) # {}
    /\ WellFormedCvv(Str(cardArgs.cvv))

ExpiredWhenPast ==
    SoundButForDate =>
        /\ RaisedInvalid(cardOut, MsgExpired) <=> Before(ExpirationInstant, now)
        /\ ~Before(ExpirationInstant, now) => cardOut.kind = "ok"

ExpiredStaysExpired ==
    (card # <<>> /\ RaisedInvalid(cardOut, MsgExpired)) => RaisedInvalid(cardOut', MsgExpired)

\* C6: for a card whose number, CVV and issuer are valid, the constructor
\* and every later validate() raise 'Credit card is expired.' exactly when
\* the last calendar day of (exp_month, exp_year) at 23:59:59 is strictly
\* before the instant read, succeed at that very instant, and once validate()
\* has raised it, it raises it at every later call.
C6_ExpiredExactlyWhenPast == []ExpiredWhenPast /\ [][ExpiredStaysExpired]_vars

\* a card accepted at construction failed a later validate() as expired
C6_Witness ==
    /\ card # <<>>
    /\ SoundButForDate
    /\ cardOut = Ended("validate", AuthorizeInvalidError(MsgExpired))

C7_Original ==
    /\ cardOut.kind \in {"none", "ok", "AuthorizeInvalidError"}
    /\ echeckOut.kind \in {"none", "ok", "AuthorizeInvalidError"}

----------------------------------------------------------------------------
(* The eCheck account, under SpecECheck *)

CallRouting == Str(echeckArgs.routing_number)
CallAccount == Str(echeckArgs.account_number)

\* exactly 9 decimal digits
NineDigits(s) == Len(s) = 9 /\ \A i \in 1..9 : s[i] \in Digits

\* one or more decimal digits
AllDecimal(s) == Len(s) >= 1 /\ \A i \in 1..Len(s) : s[i] \in Digits

\* the account number and the account type of the call are valid
AccountInOrder ==
    /\ AllDecimal(CallAccount) /\ Len(CallAccount) <= 20
    /\ echeckArgs.account_type.kind = "str"
    /\ lower(echeckArgs.account_type.s) \in ACCOUNT_TYPES

\* d8 = (7*(d0+d3+d6) + 3*(d1+d4+d7) + 9*(d2+d5)) mod 10 on 9 digits
AbaChecksumHolds(s) ==
    LET d == [i \in 0..8 |-> DigitVal(s[i + 1])]
    IN  (7 * (d[0] + d[3] + d[6]) + 3 * (d[1] + d[4] + d[7]) + 9 * (d[2] + d[5])) % 10
        = d[8]

ValidRouting(s) == NineDigits(s) /\ AbaChecksumHolds(s)

\* the field a message of ECheckAccount.validate names
FieldNamed(m) ==
    CASE m = MsgRouting -> "routing number"
      [] m = MsgAccount -> "account number"
      [] m = MsgAccountType -> "account type"
      [] OTHER -> "none"

\* C1 as stated: the constructor call itself raises AuthorizeInvalidError,
\* and yields no instance, when the routing number is not exactly 9 digits,
\* the account number is not all-decimal or the account type is not allowed.
C1_Original ==
    (/\ echeckOut.call = "__init__"
     /\ \/ ~NineDigits(CallRouting)
        \/ ~AllDecimal(CallAccount)
        \/ echeckArgs.account_type.kind # "str"
        \/ (echeckArgs.account_type.kind = "str"
            /\ lower(echeckArgs.account_type.s) \notin ACCOUNT_TYPES))
    => (echeckOut.kind = "AuthorizeInvalidError" /\ echeck = <<>>)

\* C4 as stated: with a valid account number and type, validate() accepts
\* the routing number if and only if it is 9 decimal digits whose weighted
\* checksum equals the last digit; 021000021 is accepted; every other one is
\* rejected with the routing-number message.
C4_Original ==
    (echeckOut.call = "validate" /\ AccountInOrder) =>
        /\ (echeckOut.kind = "ok") <=> ValidRouting(CallRouting)
        /\ CallRouting = ROUTING_NUMBER => echeckOut.kind = "ok"
        /\ ~ValidRouting(CallRouting) => RaisedInvalid(echeckOut, MsgRouting)

Absent(x) == x.kind = "none" \/ (x.kind = "str" /\ x.s = <<>>)

\* C5 as stated: with an absent or empty bank_name (account_name) validation
\* raises AuthorizeInvalidError with a message naming that field, also when
\* routing number, account number and account type are valid.
C5_Original ==
    echeckOut.call = "validate" =>
        /\ Absent(echeckArgs.bank_name) =>
              (echeckOut.kind = "AuthorizeInvalidError"
               /\ FieldNamed(echeckOut.msg) = "bank name")
        /\ (~Absent(echeckArgs.bank_name) /\ Absent(echeckArgs.account_name)) =>
              (echeckOut.kind = "AuthorizeInvalidError"
               /\ FieldNamed(echeckOut.msg) = "account name")

====
